---- MODULE Spec2Model ----
(***************************************************************************)
(* YouTube comment ingestion pipeline: paginated fetch, normalisation,     *)
(* batched sentiment enrichment and object-store materialisation.          *)
(*                                                                         *)
(* The repository holds several evolutions of the same pipeline; the model *)
(* carries each of them as a value of `variant`:                           *)
(*   "function"    function/src/app.py              (Comprehend, INSERT)   *)
(*   "lambda_code" lambda_code/src/lambda_handler.py (SageMaker, ADD)      *)
(*   "src"         src/app.py          (DynamoDB stream, status tracking)  *)
(*   "pipeline"    lambda_code/src/{data_fetcher,data_processing,utils}.py *)
(* Python dicts are TLA+ functions over string keys, so that `in`, `.get`  *)
(* and `{**a, **b}` keep their meaning.                                    *)
(***************************************************************************)
EXTENDS Integers, Sequences, FiniteSets, TLC

\* ---------------------------------------------------------------- bounds
MaxPages == 2       \* pages the upstream holds
MaxItems == 2       \* comment threads on a page
MaxReplies == 2     \* replies in a thread
MaxFetches == 3     \* page fetches followed within one invocation
BatchSize == 2      \* batch_size (25 resp. 100 in the code), scaled down

\* ------------------------------------------------------- python helpers
EmptyDict == [k \in {} |-> 0]

\* d.get(k, default)
Get(d, k, default) == IF k \in DOMAIN d THEN d[k] ELSE default

\* {**a, **b}, a | b, a.update(b): the right operand wins
Merge(a, b) ==
  [k \in (DOMAIN a) \cup (DOMAIN b) |-> IF k \in DOMAIN b THEN b[k] ELSE a[k]]

\* Python's None where a string is expected (a page token, an error text)
None == "<None>"

\* `not x` for x a string or None
Falsy(x) == x = None \/ x = ""

Min(a, b) == IF a < b THEN a ELSE b

RECURSIVE Concat(_)
\* the concatenation of a sequence of sequences
Concat(ss) == IF ss = <<>> THEN <<>> ELSE Head(ss) \o Concat(Tail(ss))

\* -------------------------------------------------------------- upstream
VideoIds == {"v1", "v2"}
ReplyShapes == {"snippet", "top_level"}

ThreadId(p, i) == "c" \o ToString(p) \o ToString(i)
ReplyId(p, i, j) == ThreadId(p, i) \o "r" \o ToString(j)
Cursor(p) == "p" \o ToString(p)

\* A comment resource.  `parent` is None for a top-level comment.  The
\* commentThreads API carries a reply's parent inside its snippet
\* (shape "snippet"); shape "top_level" is a reply that carries parentId
\* beside id, the key format_comment reads.
RawComment(id, parent, shape) ==
  LET snippet ==
        Merge([textDisplay |-> "d:" \o id, textOriginal |-> "o:" \o id],
          Merge(IF parent = None THEN [authorChannelId |-> [value |-> "ch:" \o id]]
                ELSE EmptyDict,
                IF parent # None /\ shape = "snippet" THEN [parentId |-> parent]
                ELSE EmptyDict))
  IN Merge([id |-> id, snippet |-> snippet],
           IF parent # None /\ shape = "top_level" THEN [parentId |-> parent]
           ELSE EmptyDict)

\* A commentThread item with k replies; the "replies" key is absent when the
\* thread has none.
Thread(p, i, k, shape) ==
  Merge([id |-> ThreadId(p, i),
         snippet |-> [topLevelComment |-> RawComment(ThreadId(p, i), None, shape)]],
        IF k = 0 THEN EmptyDict
        ELSE [replies |->
                [comments |->
                   [j \in 1..k |-> RawComment(ReplyId(p, i, j), ThreadId(p, i), shape)]]])

NumItems(p, n0) == (n0 + p - 1) % (MaxItems + 1)
NumReplies(p, i, k0) == (k0 + p + i) % (MaxReplies + 1)

\* Page p of an upstream of P pages: every page but the last names its
\* successor; the last one carries `last`: no token, an empty token, or
\* (a misbehaving upstream) a token that leads back to page 1.
Page(p, P, n0, k0, shape, last) ==
  LET tok == IF p < P THEN Cursor(p + 1) ELSE last
  IN Merge([items |-> [i \in 1..NumItems(p, n0) |->
                         Thread(p, i, NumReplies(p, i, k0), shape)]],
           IF tok = None THEN EmptyDict ELSE [nextPageToken |-> tok])

LastTokens == {None, "", Cursor(1)}

\* where the cycle of reply counts starts
ReplyOffsets == {0, 1}

Upstreams ==
  { [p \in 1..P |-> Page(p, P, n0, k0, shape, last)] :
      P \in 1..MaxPages, n0 \in 0..MaxItems, k0 \in ReplyOffsets,
      shape \in ReplyShapes, last \in LastTokens }

\* a reader of the wrong key never sees a token
next_token_wrong_key(response_data) == Get(response_data, "next_page_token", None)

\* response_data.get("nextPageToken")
next_token(response_data) == Get(response_data, "nextPageToken", None)

\* The upstream server: the page a request with `page_token` is answered with.
\* requests drops a parameter whose value is None, so None asks for page 1.
upstream_page(ps, page_token) ==
  IF page_token = None THEN ps[1]
  ELSE ps[CHOOSE p \in DOMAIN ps : Cursor(p) = page_token]

\* ---------------------------------------------------------- normalisation
\* inflection.underscore on the keys a snippet holds
underscore(key) ==
  CASE key = "textDisplay" -> "text_display"
    [] key = "textOriginal" -> "text_original"
    [] key = "authorChannelId" -> "author_channel_id"
    [] key = "parentId" -> "parent_id"
    [] OTHER -> key

\* for key, value in snippet.items(): snippet_snake_case[underscore(key)] = value
snippet_snake_case(snippet) ==
  [nk \in {underscore(k) : k \in DOMAIN snippet} |->
     snippet[CHOOSE k \in DOMAIN snippet : underscore(k) = nk]]

\* comment_data["snippet"].get("authorChannelId", {}).get("value", "none")
author_channel_id(comment_data) ==
  Get(Get(comment_data.snippet, "authorChannelId", EmptyDict), "value", "none")

Now == "2025-01-01T00:00:00"

\* function/src/app.py: derived parent_id and author_channel_id come last
fn_format_comment(comment_data, additional_data) ==
  Merge(Merge(Merge([id |-> comment_data.id],
                    snippet_snake_case(comment_data.snippet)),
              additional_data),
        [parent_id |-> Get(comment_data, "parentId", "none"),
         author_channel_id |-> author_channel_id(comment_data)])

\* lambda_code/src/lambda_handler.py: data.update(additional_data) comes last
lc_format_comment(comment_data, additional_data) ==
  Merge(Merge(Merge([id |-> comment_data.id],
                    snippet_snake_case(comment_data.snippet)),
              [parent_id |-> Get(comment_data, "parentId", "none"),
               author_channel_id |-> author_channel_id(comment_data)]),
        additional_data)

\* src/app.py: no additional data, fetched_at stamped per comment
src_format_comment(comment_data, additional_data) ==
  Merge(Merge([id |-> comment_data.id],
              snippet_snake_case(comment_data.snippet)),
        [author_channel_id |-> author_channel_id(comment_data),
         parent_id |-> Get(comment_data, "parentId", "none"),
         fetched_at |-> Now])

format_comment(v, comment_data, additional_data) ==
  CASE v = "function" -> fn_format_comment(comment_data, additional_data)
    [] v = "lambda_code" -> lc_format_comment(comment_data, additional_data)
    [] OTHER -> src_format_comment(comment_data, additional_data)

\* The body of `for item in response_data["items"]` for one item: the
\* top-level comment, then the replies in source order.
format_item(v, item, additional_data) ==
  <<format_comment(v, item.snippet.topLevelComment, additional_data)>>
  \o (IF "replies" \in DOMAIN item
      THEN [j \in DOMAIN item.replies.comments |->
              format_comment(v, item.replies.comments[j], additional_data)]
      ELSE <<>>)

format_items(v, items, additional_data) ==
  Concat([i \in DOMAIN items |-> format_item(v, items[i], additional_data)])

\* ------------------------------------- lambda_code/src/data_processing.py
\* isinstance(v, dict) for the value under key k of an upstream item
IsDict(k) == k \in {"snippet", "topLevelComment", "authorChannelId"}

RECURSIVE flatten_dict(_, _)
\* flatten_dict(d, parent_key, sep="."): nested keys joined with "."
flatten_dict(d, parent_key) ==
  LET new_key(k) == IF parent_key # "" THEN parent_key \o "." \o k ELSE k
      sub(k) == IF IsDict(k) THEN flatten_dict(d[k], new_key(k))
                ELSE [nk \in {new_key(k)} |-> d[k]]
      keys == UNION {DOMAIN sub(k) : k \in DOMAIN d}
  IN [nk \in keys |-> LET k == CHOOSE k \in DOMAIN d : nk \in DOMAIN sub(k)
                      IN sub(k)[nk]]

\* inflection.underscore on the keys flatten_dict yields: every capital that
\* follows a lower-case letter opens a new word
underscore_flat(key) ==
  CASE key = "snippet.topLevelComment.id" -> "snippet.top_level_comment.id"
    [] key = "snippet.topLevelComment.snippet.textDisplay" ->
         "snippet.top_level_comment.snippet.text_display"
    [] key = "snippet.topLevelComment.snippet.textOriginal" ->
         "snippet.top_level_comment.snippet.text_original"
    [] key = "snippet.topLevelComment.snippet.authorChannelId.value" ->
         "snippet.top_level_comment.snippet.author_channel_id.value"
    [] key = "snippet.textDisplay" -> "snippet.text_display"
    [] key = "snippet.textOriginal" -> "snippet.text_original"
    [] key = "snippet.parentId" -> "snippet.parent_id"
    [] OTHER -> underscore(key)

\* a dict comprehension over d.items() with the keys mapped by f: of two
\* items that map to one key the later one stays
MapKeys(d, f(_), later(_, _)) ==
  [nk \in {f(k) : k \in DOMAIN d} |->
     LET ks == {k \in DOMAIN d : f(k) = nk}
     IN d[CHOOSE k \in ks : \A o \in ks : o = k \/ later(k, o)]]

\* flatten_dict lists a thread's own "id" before the keys under "snippet"
LaterKey(k, o) == o = "id"

underscore_keys(d) == MapKeys(d, underscore_flat, LaterKey)

\* k.replace("snippet.", "").replace("top_level_comment.", "")
clear_key(k) ==
  CASE k = "snippet.top_level_comment.id" -> "id"
    [] k = "snippet.top_level_comment.snippet.text_display" -> "text_display"
    [] k = "snippet.top_level_comment.snippet.text_original" -> "text_original"
    [] k = "snippet.top_level_comment.snippet.author_channel_id.value" ->
         "author_channel_id.value"
    [] k = "snippet.text_display" -> "text_display"
    [] k = "snippet.text_original" -> "text_original"
    [] k = "snippet.parent_id" -> "parent_id"
    [] OTHER -> k

clear_keys(data) == MapKeys(data, clear_key, LaterKey)

\* replies = data.pop("replies", None); [data, *replies["comments"]]
promote_replies(data) ==
  IF "replies" \in DOMAIN data
  THEN <<[k \in DOMAIN data \ {"replies"} |-> data[k]]>> \o data.replies.comments
  ELSE <<data>>

\* The stages every document needs before detect_sentiment can read its
\* "text_original": apply_expand(promote_replies), then apply(flatten_dict),
\* apply(underscore_keys), apply(clear_keys).
pipeline_docs(items) ==
  LET promoted == Concat([i \in DOMAIN items |-> promote_replies(items[i])])
  IN [i \in DOMAIN promoted |->
        clear_keys(underscore_keys(flatten_dict(promoted[i], "")))]

\* What a page's items become before enrichment.
normalize(v, items, extra) ==
  IF v = "pipeline" THEN pipeline_docs(items) ELSE format_items(v, items, extra)

\* ------------------------------------------------------ external services
BUCKET_NAME == "bucket"

\* f"data/{video_id}.json"
s3_key(video_id) == "data/" \o video_id \o ".json"

Keys == {s3_key(v) : v \in VideoIds}

\* No object under a key.  A stored body is the non-empty sequence of the
\* segments its text splits into at "\n".
NoObject == <<>>

\* One segment of a body: the JSON text of one document, or the empty text.
json_line(doc) == [text |-> "json", doc |-> doc]
BlankLine == [text |-> "", doc |-> EmptyDict]

\* "\n".join([json.dumps(comment) for comment in comments]): joining nothing
\* gives the empty text, which is one blank segment.
jsonl_body(comments) ==
  IF comments = <<>> THEN <<BlankLine>>
  ELSE [i \in DOMAIN comments |-> json_line(comments[i])]

\* An object an earlier ingestion left under a key.
PriorBody == jsonl_body(<<[id |-> "old", text_display |-> "d:old",
                           parent_id |-> "none", author_channel_id |-> "none"]>>)

Tag(call, i) == ToString(call) \o "." \o ToString(i)

\* Element i of the ResultList Comprehend answers call number `call` with.
comprehend_result(call, i) ==
  [Sentiment |-> "S" \o Tag(call, i),
   SentimentScore |-> [Positive |-> "P" \o Tag(call, i),
                       Negative |-> "N" \o Tag(call, i),
                       Neutral |-> "U" \o Tag(call, i)]]

\* Element i of the list the SageMaker endpoint answers call `call` with.
sagemaker_result(call, i) ==
  [label |-> "S" \o Tag(call, i), score |-> "P" \o Tag(call, i)]

service_result(v, call, i) ==
  IF v \in {"function", "src"} THEN comprehend_result(call, i)
  ELSE sagemaker_result(call, i)

\* The fields batch_detect_sentiment merges into a comment.
comprehend_fields(sentiment) ==
  [sentiment |-> sentiment.Sentiment,
   sentiment_score_positive |-> sentiment.SentimentScore.Positive,
   sentiment_score_negative |-> sentiment.SentimentScore.Negative,
   sentiment_score_neutral |-> sentiment.SentimentScore.Neutral]

sagemaker_fields(sentiment) ==
  [sentiment |-> sentiment.label, sentiment_score |-> sentiment.score]

\* batches that run one element into their successor
batched_overlapping(seq, n, b) == SubSeq(seq, (b - 1) * n + 1, Min(b * n + 1, Len(seq)))

\* itertools.batched(comments, n): batch number b (from 1)
batched(seq, n, b) == SubSeq(seq, (b - 1) * n + 1, Min(b * n, Len(seq)))

\* ------------------------------------------------------------------ state
VARIABLES
  variant,                  \* which evolution of the pipeline is deployed
  pages,                    \* the upstream's pages
  s3,                       \* the bucket: key -> body
  status,                   \* the DynamoDB table: video_id -> item
  pc,                       \* where the invocation stands
  event,                    \* the invocation's input
  next_page_token,
  comments,
  scored,                   \* comments already handed to the scoring service
  enriched,                 \* function: the list batch_detect_sentiment builds
  result,                   \* lambda_code: the local `result`
  comments_with_sentiment,  \* what batch_detect_sentiment returned
  faulted,                  \* the scoring service answered with a wrong length
  error,                    \* the exception raised, "" when none
  response,                 \* the payload returned, {} when none
  s3Before,                 \* the bucket when the invocation began
  io,                       \* the external calls of the invocation, in order
  inserted,                 \* an ingestion has been invoked
  remover                   \* where a concurrent REMOVE invocation stands

vars == <<variant, pages, s3, status, pc, event, next_page_token, comments,
          scored, enriched, result, comments_with_sentiment, faulted, error,
          response, s3Before, io, inserted, remover>>

Variants == {"function", "lambda_code", "src", "pipeline"}
ActionCodes == {"ADD", "INSERT", "REMOVE", "MODIFY"}

\* Action.INSERT, Action.ADD, DynamoDBRecordEventName.INSERT
InsertCode(v) == IF v \in {"lambda_code", "pipeline"} THEN "ADD" ELSE "INSERT"

\* The lazy pipeline: batched() asks get_data for documents only while its
\* batch is short, so a full batch is scored before the next page is
\* fetched, and a short one once get_data is exhausted.
pipeline_pc(total, consumed, exhausted) ==
  IF total - consumed >= BatchSize THEN "score"
  ELSE IF ~exhausted THEN "fetch"
  ELSE IF total > consumed THEN "score"
  ELSE "collect"

Unbound == [bound |-> FALSE, value |-> <<>>]
NoReturn == [kind |-> "unset", value |-> <<>>]

Calls(op) == SelectSeq(io, LAMBDA e : e.op = op)

Init ==
  /\ variant \in Variants
  /\ pages \in Upstreams
  /\ \E body \in {NoObject, PriorBody, jsonl_body(<<>>)} : s3 = [k \in Keys |-> body]
  /\ status = [v \in VideoIds |-> [status |-> "PENDING"]]
  /\ pc = "idle"
  /\ event = EmptyDict
  /\ next_page_token = None
  /\ comments = <<>>
  /\ scored = 0
  /\ enriched = <<>>
  /\ result = Unbound
  /\ comments_with_sentiment = NoReturn
  /\ faulted = FALSE
  /\ error = ""
  /\ response = EmptyDict
  /\ s3Before = s3
  /\ io = <<>>
  /\ inserted = FALSE
  /\ remover = "off"

\* an except clause that logs and carries on
Raise_swallowed(err) ==
  /\ error' = err
  /\ pc' = "upload"

\* a failure after which the handler goes on to report success
Raise_ignored(err) ==
  /\ error' = err
  /\ pc' = "return"

\* a failure after which the failed step is tried again
Raise_retry(err) ==
  /\ error' = err
  /\ pc' = pc

\* an exception that passes the except clause by
Raise_unrecorded(err) ==
  /\ error' = err
  /\ pc' = "failed"

\* An exception raised inside the try block of the insert path: src/app.py
\* handles it (status FAILED) before re-raising, the others let it through.
Raise(err) ==
  /\ error' = err
  /\ pc' = IF variant = "src" THEN "except" ELSE "failed"

additional_data ==
  [execution_id |-> event.execution_id, fetched_at |-> Now]

\* ---------------------------------------------------------------- actions
\* a dispatch whose default branch is the insert path
entry_pc_default_insert(v, a) ==
  CASE v = "pipeline" -> "fetch"
    [] a = "REMOVE" -> IF v = "src" THEN "read" ELSE "remove"
    [] OTHER -> IF v = "src" THEN "begin" ELSE "secret"

\* Where an invocation with action code a starts: `match action` after the
\* Event model accepted the code (function, lambda_code), the two `if`s of
\* record_handler and its final raise (src).
entry_pc(v, a) ==
  CASE v = "pipeline" -> "fetch"
    [] a = InsertCode(v) -> IF v = "src" THEN "begin" ELSE "secret"
    [] a = "REMOVE" -> IF v = "src" THEN "read" ELSE "remove"
    [] OTHER -> "failed"

\* The runtime invokes the handler.  function and lambda_code validate the
\* event against the Action enum before the handler body runs; src/app.py
\* falls through to its final raise.
Invoke ==
  /\ pc \in {"idle", "done", "failed"}
  /\ \E v \in VideoIds, a \in ActionCodes :
       /\ variant = "pipeline" => a = "ADD"
       /\ a = InsertCode(variant) => ~inserted
       /\ inserted' = (inserted \/ a = InsertCode(variant))
       /\ event' = [video_id |-> v, action |-> a, execution_id |-> "e1"]
       /\ pc' = entry_pc(variant, a)
       /\ error' = IF a \in {InsertCode(variant), "REMOVE"} \/ variant = "pipeline" THEN ""
                   ELSE IF variant = "src" THEN "ValueError" ELSE "ValidationError"
  /\ next_page_token' = None
  /\ comments' = <<>>
  /\ scored' = 0
  /\ enriched' = <<>>
  /\ result' = Unbound
  /\ comments_with_sentiment' = NoReturn
  /\ faulted' = FALSE
  /\ response' = EmptyDict
  /\ s3Before' = s3
  /\ io' = <<>>
  /\ UNCHANGED <<variant, pages, s3, status, remover>>

\* src/app.py: SET #status = INSERTION_IN_PROGRESS
MarkInProgress ==
  /\ pc = "begin"
  /\ status' = [status EXCEPT ![event.video_id] =
                  Merge(@, [status |-> "INSERTION_IN_PROGRESS"])]
  /\ io' = Append(io, [op |-> "update_item"])
  /\ pc' = "secret"
  /\ UNCHANGED <<variant, pages, s3, event, next_page_token, comments, scored,
                 enriched, result, comments_with_sentiment, faulted, error,
                 response, s3Before, inserted, remover>>

\* parameters.get_secret(...)
GetSecret ==
  /\ pc = "secret"
  /\ io' = Append(io, [op |-> "get_secret"])
  /\ pc' = "fetch"
  /\ UNCHANGED <<variant, pages, s3, status, event, next_page_token, comments,
                 scored, enriched, result, comments_with_sentiment, faulted,
                 error, response, s3Before, inserted, remover>>

\* a request that leaves the token out
request_token_dropped(page_token) == None

\* params["pageToken"] of the request: the token the loop holds
request_token(page_token) == page_token

\* One turn of the `while True` loop of retrieve_comments_from_youtube
\* (get_data in the pipeline): one request, the page's items normalised and
\* appended, the token followed.  fetch_page of data_fetcher.py looks the
\* secret up itself.
FetchPage ==
  /\ pc = "fetch"
  /\ Len(Calls("fetch")) < MaxFetches
  /\ \E ok \in BOOLEAN :
       /\ io' = (IF variant = "pipeline" THEN Append(io, [op |-> "get_secret"]) ELSE io)
                \o <<[op |-> "fetch", page_token |-> request_token(next_page_token),
                     ok |-> ok]>>
       /\ IF ok
          THEN LET response_data == upstream_page(pages, request_token(next_page_token))
                   token == next_token(response_data)
                   all == comments \o
                            normalize(variant, response_data.items, additional_data)
               IN /\ comments' = all
                  /\ next_page_token' = token
                  /\ pc' = IF variant = "pipeline"
                           THEN pipeline_pc(Len(all), scored, Falsy(token))
                           ELSE IF Falsy(token) THEN "score" ELSE "fetch"
                  /\ UNCHANGED error
          ELSE /\ Raise(IF variant = "src" THEN "ValueError" ELSE "HTTPError")
               /\ UNCHANGED <<comments, next_page_token>>
  /\ UNCHANGED <<variant, pages, s3, status, event, scored, enriched, result,
                 comments_with_sentiment, faulted, response, s3Before, inserted, remover>>

\* What the scoring service may do with a batch of n texts: fail, answer
\* with n results, or (once per invocation) with one too few or too many.
ServiceOutcomes(n) ==
  {[ok |-> FALSE, len |-> 0]}
  \cup {[ok |-> TRUE, len |-> m] : m \in {n} \cup (IF faulted THEN {} ELSE {n - 1, n + 1})}

\* function/src/app.py: comment = {**batch[idx], **sentiment}, appended
fn_merge_batch(batch, ResultList) ==
  [i \in 1..Min(Len(ResultList), Len(batch)) |->
     Merge(batch[i], comprehend_fields(ResultList[i]))]

\* lambda_code: for comment, sentiment in zip(batch, result), in place
lc_merge_batch(batch, ResultList) ==
  [i \in DOMAIN batch |->
     IF i <= Len(ResultList) THEN Merge(batch[i], sagemaker_fields(ResultList[i]))
     ELSE batch[i]]

\* src/app.py: batch[idx] |= {...} updates the dict in place and then fails
\* to store into the tuple, so only the first result is ever merged
src_merge_batch(batch, ResultList) ==
  [i \in DOMAIN batch |->
     IF i = 1 /\ Len(ResultList) >= 1
     THEN Merge(batch[i], comprehend_fields(ResultList[i]))
     ELSE batch[i]]

\* data_processing.detect_sentiment: zip(data, result) in place; the batch
\* itself is returned, whatever the length of the answer
detect_sentiment(data, ResultList) ==
  [i \in DOMAIN data |->
     IF i <= Len(ResultList) THEN Merge(data[i], sagemaker_fields(ResultList[i]))
     ELSE data[i]]

\* `seq` with the elements from position first on replaced by those of part
Splice(seq, first, part) ==
  [i \in DOMAIN seq |->
     IF i >= first /\ i < first + Len(part) THEN part[i - first + 1] ELSE seq[i]]

\* One turn of `for batch in batched(comments, batch_size)`: one call of the
\* scoring service and the merge of its answer.
ScoreBatch ==
  /\ pc = "score"
  /\ scored < Len(comments)
  /\ LET call == Len(Calls("score")) + 1
         batch == batched(comments, BatchSize, call)
         TextList == [i \in DOMAIN batch |->
                        IF variant = "pipeline" THEN batch[i].text_original
                        ELSE batch[i].text_display]
     IN \E o \in ServiceOutcomes(Len(batch)) :
          LET ResultList == [i \in 1..o.len |-> service_result(variant, call, i)]
          IN /\ io' = Append(io, [op |-> "score", texts |-> TextList,
                                  ok |-> o.ok, results |-> ResultList])
             /\ IF ~o.ok
                THEN /\ Raise("ClientError")
                     /\ UNCHANGED <<comments, scored, enriched, result, faulted>>
                ELSE /\ faulted' = (faulted \/ o.len # Len(batch))
                     /\ scored' = scored + Len(batch)
                     /\ CASE variant = "function" ->
                               /\ enriched' = enriched \o fn_merge_batch(batch, ResultList)
                               /\ IF o.len > Len(batch)
                                  THEN Raise("IndexError")
                                  ELSE pc' = "score" /\ UNCHANGED error
                               /\ UNCHANGED <<comments, result>>
                          [] variant = "lambda_code" ->
                               /\ comments' = Splice(comments, scored + 1,
                                                     lc_merge_batch(batch, ResultList))
                               /\ result' = [bound |-> TRUE, value |-> ResultList]
                               /\ pc' = "score"
                               /\ UNCHANGED <<enriched, error>>
                          [] variant = "pipeline" ->
                               /\ comments' = Splice(comments, scored + 1,
                                                     detect_sentiment(batch, ResultList))
                               /\ enriched' = enriched \o detect_sentiment(batch, ResultList)
                               /\ pc' = pipeline_pc(Len(comments), scored + Len(batch),
                                                    Falsy(next_page_token))
                               /\ UNCHANGED <<result, error>>
                          [] OTHER ->
                               /\ comments' = Splice(comments, scored + 1,
                                                     src_merge_batch(batch, ResultList))
                               /\ IF o.len >= 1
                                  THEN Raise("TypeError")
                                  ELSE pc' = "score" /\ UNCHANGED error
                               /\ UNCHANGED <<enriched, result>>
  /\ UNCHANGED <<variant, pages, s3, status, event, next_page_token,
                 comments_with_sentiment, response, s3Before, inserted, remover>>

\* batch_detect_sentiment returns: the list it built (function), its local
\* `result`, unbound when no batch ran (lambda_code), or nothing (src).
FinishScoring ==
  /\ pc = "score"
  /\ variant # "pipeline"
  /\ scored >= Len(comments)
  /\ CASE variant = "function" ->
            /\ comments_with_sentiment' = [kind |-> "list", value |-> enriched]
            /\ pc' = "upload"
            /\ UNCHANGED error
       [] variant = "lambda_code" ->
            IF result.bound
            THEN /\ comments_with_sentiment' = [kind |-> "list", value |-> result.value]
                 /\ pc' = "upload"
                 /\ UNCHANGED error
            ELSE /\ Raise("UnboundLocalError")
                 /\ UNCHANGED comments_with_sentiment
       [] OTHER ->
            /\ comments_with_sentiment' = [kind |-> "None", value |-> <<>>]
            /\ pc' = "upload"
            /\ UNCHANGED error
  /\ UNCHANGED <<variant, pages, s3, status, event, next_page_token, comments,
                 scored, enriched, result, faulted, response, s3Before, io,
                 inserted, remover>>

\* DataPipeline.collect(): the documents apply_batch yielded, as a list
Collect ==
  /\ pc = "collect"
  /\ comments_with_sentiment' = [kind |-> "list", value |-> enriched]
  /\ pc' = "done"
  /\ UNCHANGED <<variant, pages, s3, status, event, next_page_token, comments,
                 scored, enriched, result, faulted, error, response, s3Before,
                 io, inserted, remover>>

\* a put that adds to the object it finds
put_object_append(old, Body) == old \o Body

\* s3.put_object(Bucket, Key, Body): the object becomes Body, whatever it was
put_object(old, Body) == Body

\* upload_comments_to_s3: the body is built first (iterating None raises),
\* then one put_object replaces the object.
Upload ==
  /\ pc = "upload"
  /\ IF comments_with_sentiment.kind = "None"
     THEN /\ Raise("TypeError")
          /\ UNCHANGED <<s3, io>>
     ELSE \E ok \in BOOLEAN :
            /\ io' = Append(io, [op |-> "put_object",
                                 key |-> s3_key(event.video_id), ok |-> ok])
            /\ IF ok
               THEN /\ s3' = [s3 EXCEPT ![s3_key(event.video_id)] =
                                put_object(@, jsonl_body(comments_with_sentiment.value))]
                    /\ pc' = "return"
                    /\ UNCHANGED error
               ELSE /\ Raise("ClientError")
                    /\ UNCHANGED s3
  /\ UNCHANGED <<variant, pages, status, event, next_page_token, comments,
                 scored, enriched, result, comments_with_sentiment, faulted,
                 response, s3Before, inserted, remover>>

\* the payload with the wrong event field echoed
fn_payload_wrong_field(e) ==
  [action |-> e.action, video_id |-> e.execution_id,
   s3_uri |-> "s3://" \o BUCKET_NAME \o "/data/" \o e.video_id \o ".json"]

\* function/src/app.py
fn_payload(e) ==
  [action |-> e.action, video_id |-> e.video_id,
   s3_uri |-> "s3://" \o BUCKET_NAME \o "/data/" \o e.video_id \o ".json"]

\* lambda_code: s3_uri is what upload_comments_to_s3 returned, the key
lc_payload(e) ==
  [action |-> e.action, video_id |-> e.video_id, s3_uri |-> s3_key(e.video_id)]

\* src/app.py
src_payload(e, total) ==
  [action |-> e.action, video_id |-> e.video_id, total_comments |-> total,
   output |-> [bucket_name |-> BUCKET_NAME, bucket_key |-> s3_key(e.video_id),
               s3_uri |-> "s3://" \o BUCKET_NAME \o "/" \o s3_key(e.video_id)]]

\* The insert path returns its payload; src/app.py first records
\* INSERTION_COMPLETED.
Return ==
  /\ pc = "return"
  /\ CASE variant = "function" ->
            /\ response' = fn_payload(event)
            /\ UNCHANGED <<status, io>>
       [] variant = "lambda_code" ->
            /\ response' = lc_payload(event)
            /\ UNCHANGED <<status, io>>
       [] OTHER ->
            /\ status' = [status EXCEPT ![event.video_id] =
                 Merge(@, [status |-> "INSERTION_COMPLETED",
                           result_file_url |->
                             "s3://" \o BUCKET_NAME \o "/" \o s3_key(event.video_id),
                           total_comments |-> Len(comments_with_sentiment.value),
                           completed_at |-> Now])]
            /\ io' = Append(io, [op |-> "update_item"])
            /\ response' = src_payload(event, Len(comments_with_sentiment.value))
  /\ pc' = "done"
  /\ UNCHANGED <<variant, pages, s3, event, next_page_token, comments, scored,
                 enriched, result, comments_with_sentiment, faulted, error,
                 s3Before, inserted, remover>>

\* src/app.py, except clause: status FAILED with the message, then re-raise
RecordFailure ==
  /\ pc = "except"
  /\ status' = [status EXCEPT ![event.video_id] =
                  Merge(@, [status |-> "INSERTION_FAILED",
                            error_message |-> error, completed_at |-> Now])]
  /\ io' = Append(io, [op |-> "update_item"])
  /\ pc' = "failed"
  /\ UNCHANGED <<variant, pages, s3, event, next_page_token, comments, scored,
                 enriched, result, comments_with_sentiment, faulted, error,
                 response, s3Before, inserted, remover>>

\* src/app.py, REMOVE: retrieve_comments_from_s3.  get_object raises on a
\* missing key; json.loads raises on a segment that is no JSON text.
ReadObject ==
  /\ pc = "read"
  /\ io' = Append(io, [op |-> "get_object", key |-> s3_key(event.video_id)])
  /\ LET body == s3[s3_key(event.video_id)]
     IN IF body = NoObject
        THEN error' = "NoSuchKey" /\ pc' = "failed" /\ UNCHANGED comments
        ELSE IF \E i \in DOMAIN body : body[i].text = ""
        THEN error' = "JSONDecodeError" /\ pc' = "failed" /\ UNCHANGED comments
        ELSE /\ comments' = [i \in DOMAIN body |-> body[i].doc]
             /\ pc' = "remove"
             /\ UNCHANGED error
  /\ UNCHANGED <<variant, pages, s3, status, event, next_page_token, scored,
                 enriched, result, comments_with_sentiment, faulted, response,
                 s3Before, inserted, remover>>

\* remove_comments_from_s3 and the REMOVE payload
Remove ==
  /\ pc = "remove"
  /\ io' = Append(io, [op |-> "delete_object", key |-> s3_key(event.video_id)])
  /\ s3' = [s3 EXCEPT ![s3_key(event.video_id)] = NoObject]
  /\ response' =
       IF variant = "src"
       THEN [action |-> event.action, video_id |-> event.video_id,
             total_comments |-> Len(comments)]
       ELSE [action |-> event.action, video_id |-> event.video_id]
  /\ pc' = "done"
  /\ UNCHANGED <<variant, pages, status, event, next_page_token, comments,
                 scored, enriched, result, comments_with_sentiment, faulted,
                 error, s3Before, inserted, remover>>

Next ==
  \/ Invoke
  \/ MarkInProgress
  \/ GetSecret
  \/ FetchPage
  \/ ScoreBatch
  \/ FinishScoring
  \/ Collect
  \/ Upload
  \/ Return
  \/ RecordFailure
  \/ ReadObject
  \/ Remove

Spec == Init /\ [][Next]_vars

\* ------------------------------------------------------------ properties
Handlers == {"function", "lambda_code", "src"}

Fetches == Calls("fetch")
Scores == Calls("score")
Puts == SelectSeq(io, LAMBDA e : e.op = "put_object" /\ e.ok)

\* the invocation runs the insert path
InsertPath == event # EmptyDict /\ event.action = InsertCode(variant)

\* the retrieval loop has left through its break
RetrievalReturned ==
  /\ InsertPath
  /\ Len(Fetches) > 0
  /\ Fetches[Len(Fetches)].ok
  /\ Falsy(next_page_token)

\* only the last page has an absent or empty continuation token
Honest ==
  \A p \in DOMAIN pages : Falsy(Get(pages[p], "nextPageToken", None)) <=> p = Len(pages)

SentimentKeys ==
  {"sentiment", "sentiment_score", "sentiment_score_positive",
   "sentiment_score_negative", "sentiment_score_neutral"}

Unscored(doc) == [k \in DOMAIN doc \ SentimentKeys |-> doc[k]]

\* every page's items, normalised one by one, in page-then-item order
ExpectedComments ==
  Concat([p \in DOMAIN pages |->
    Concat([i \in DOMAIN pages[p].items |->
      IF variant = "pipeline" THEN pipeline_docs(<<pages[p].items[i]>>)
      ELSE format_item(variant, pages[p].items[i], additional_data)])])

\* C1: against an upstream of P pages of which only the last has no (or an
\* empty) continuation token, the retrieval returns the concatenation of all
\* pages' normalised items in page-then-item order after exactly P fetches,
\* and never asks for more than P pages.
C1_Pagination ==
  /\ (Honest /\ RetrievalReturned) =>
       /\ Len(Fetches) = Len(pages)
       /\ [i \in DOMAIN comments |-> Unscored(comments[i])] = ExpectedComments
  /\ (Honest /\ InsertPath /\ pc = "fetch") => Len(Fetches) < Len(pages)

C1_Witness ==
  /\ variant = "function"
  /\ Honest
  /\ RetrievalReturned
  /\ Len(pages) = MaxPages
  /\ Len(Fetches) = MaxPages
  /\ Len(comments) >= 3

\* C2: every item of a fetched page that holds N replies is normalised into
\* N+1 comments: the top-level one with parent_id "none", then N replies
\* whose parent_id is the top-level comment's id.
C2_ThreadNormalisation ==
  (InsertPath /\ variant \in Handlers /\ Len(Fetches) > 0 /\ Fetches[1].ok) =>
    \A i \in DOMAIN pages[1].items :
      LET item == pages[1].items[i]
          N == IF "replies" \in DOMAIN item THEN Len(item.replies.comments) ELSE 0
          out == format_item(variant, item, additional_data)
      IN /\ Len(out) = N + 1
         /\ out[1].parent_id = "none"
         /\ \A j \in 2..(N + 1) : out[j].parent_id = out[1].id

\* the part of C2 the code keeps: N+1 comments per item, the top-level one
\* first with the sentinel, the replies after it in source order
C2_Holds ==
  (InsertPath /\ variant \in Handlers /\ Len(Fetches) > 0 /\ Fetches[1].ok) =>
    \A i \in DOMAIN pages[1].items :
      LET item == pages[1].items[i]
          N == IF "replies" \in DOMAIN item THEN Len(item.replies.comments) ELSE 0
          out == format_item(variant, item, additional_data)
      IN /\ Len(out) = N + 1
         /\ out[1].parent_id = "none"
         /\ \A j \in 2..(N + 1) : out[j].id = item.replies.comments[j - 1].id

\* position i of the comment stream lies in batch BatchOf(i), at place PlaceOf(i)
BatchOf(i) == ((i - 1) \div BatchSize) + 1
PlaceOf(i) == ((i - 1) % BatchSize) + 1

TextOf(doc) == IF variant = "pipeline" THEN doc.text_original ELSE doc.text_display

FieldsOf(r) ==
  IF variant = "function" THEN
    [sentiment |-> r.Sentiment,
     sentiment_score_positive |-> r.SentimentScore.Positive,
     sentiment_score_negative |-> r.SentimentScore.Negative,
     sentiment_score_neutral |-> r.SentimentScore.Neutral]
  ELSE [sentiment |-> r.label, sentiment_score |-> r.score]

\* every answer so far had the length of its batch
AllMatched ==
  \A k \in DOMAIN Scores : Scores[k].ok /\ Len(Scores[k].results) = Len(Scores[k].texts)

\* C3: enrichment cuts its input into contiguous batches of exactly BatchSize
\* comments, only the last one shorter, one scoring call per batch in input
\* order; while every answer has its batch's length, result i of a batch is
\* merged into that batch's i-th comment and into no other.
C3_BatchIntegrity ==
  (InsertPath /\ variant \in {"function", "pipeline"}) =>
    /\ \A k \in DOMAIN Scores :
         /\ Len(Scores[k].texts) \in 1..BatchSize
         /\ k < Len(Scores) => Len(Scores[k].texts) = BatchSize
         /\ \A i \in DOMAIN Scores[k].texts :
              Scores[k].texts[i] = TextOf(comments[(k - 1) * BatchSize + i])
    /\ (pc \in {"upload", "collect"}) =>
         /\ scored = Len(comments)
         /\ Len(Scores) = (Len(comments) + BatchSize - 1) \div BatchSize
    /\ AllMatched =>
         /\ Len(enriched) = scored
         /\ \A i \in DOMAIN enriched :
              enriched[i] =
                Merge(comments[i], FieldsOf(Scores[BatchOf(i)].results[PlaceOf(i)]))

C3_Witness ==
  /\ variant = "function"
  /\ pc = "upload"
  /\ AllMatched
  /\ Len(Scores) >= 2
  /\ Len(Scores[Len(Scores)].texts) < BatchSize
  /\ Len(enriched) = Len(comments)

\* some answer of the scoring service did not have its batch's length
Mismatch ==
  \E k \in DOMAIN Scores : Scores[k].ok /\ Len(Scores[k].results) # Len(Scores[k].texts)

\* C4: once the scoring service has answered a batch with a list of another
\* length, enrichment fails, so the insert path neither writes to the
\* object store nor returns a payload.
C4_LengthMismatchAborts ==
  (InsertPath /\ variant \in {"function", "lambda_code"} /\ Mismatch) =>
    /\ s3 = s3Before
    /\ pc \notin {"return", "done"}

TheKey == s3_key(event.video_id)

\* C5: the insert path writes the object store at most once, and only after
\* every page was fetched and every batch scored; when the invocation fails,
\* the error reaches the invoker and the bucket is as it was before.
C5_SingleWriteAtEnd ==
  (InsertPath /\ variant \in Handlers) =>
    /\ Len(Calls("put_object")) <= 1
    /\ s3 # s3Before => Len(Puts) = 1
    /\ \A j \in DOMAIN io : io[j].op = "put_object" =>
         /\ \A k \in DOMAIN io : io[k].op \in {"fetch", "score"} => (k < j /\ io[k].ok)
         /\ RetrievalReturned
         /\ scored >= Len(comments)
         /\ \A key \in Keys \ {TheKey} : s3[key] = s3Before[key]
    /\ pc \in {"failed", "except"} =>
         /\ s3 = s3Before
         /\ error # ""
         /\ response = EmptyDict

C5_Witness ==
  /\ variant = "function"
  /\ InsertPath
  /\ pc = "failed"
  /\ error = "ClientError"
  /\ Len(Scores) >= 2
  /\ Len(Puts) = 0
  /\ s3[TheKey] = PriorBody

\* C6: after a successful insert the object under data/{video_id}.json holds
\* one record per retrieved comment, in retrieval order, each the comment
\* with its sentiment fields merged in.
C6_StoredObjectIsEnriched ==
  (InsertPath /\ variant \in {"lambda_code", "src"} /\ pc = "done" /\ AllMatched) =>
    /\ s3[TheKey] = jsonl_body(comments)
    /\ \A i \in DOMAIN comments : "sentiment" \in DOMAIN comments[i]

\* C7: a REMOVE for a video that has no stored object completes without
\* error, echoes {action, video_id} and leaves the key absent.
C7_RemoveIdempotent ==
  (/\ event # EmptyDict
   /\ variant \in Handlers
   /\ event.action = "REMOVE"
   /\ s3Before[TheKey] = NoObject
   /\ pc \in {"done", "failed"}) =>
    /\ pc = "done"
    /\ response.action = "REMOVE"
    /\ response.video_id = event.video_id
    /\ s3[TheKey] = NoObject

\* ---------------------------------------------------------------------
\* The stored text, character by character: upload_comments_to_s3 followed
\* by retrieve_comments_from_s3 (function/src/app.py).  A string is a
\* sequence of one-character strings.
\* ---------------------------------------------------------------------
MaxChars == 3     \* characters of comment text in one written collection
MaxDocs == 2      \* comments in one written collection

LF == "\n"
QUOTE == "\""
BACKSLASH == "\\"
TextChars == {"a", "n", QUOTE, BACKSLASH, LF}

id_key == <<"i", "d">>
text_display_key == <<"t", "e", "x", "t", "_", "d", "i", "s", "p", "l", "a", "y">>

\* an ordered dict as the sequence of its <<key, value>> items
comment_doc(i, text) ==
  << <<id_key, <<"c", ToString(i)>>>>, <<text_display_key, text>> >>

\* dict equality does not look at the order of the items
AsDict(items) ==
  [k \in {items[j][1] : j \in DOMAIN items} |->
     LET last == CHOOSE j \in DOMAIN items :
                   /\ items[j][1] = k
                   /\ \A m \in DOMAIN items : items[m][1] = k => m <= j
     IN items[last][2]]

StrsUpTo(n) == UNION {[1..m -> TextChars] : m \in 0..n}

RECURSIVE TextLists(_, _)
TextLists(k, budget) ==
  IF k = 0 THEN {<<>>}
  ELSE UNION {{<<t>> \o rest : rest \in TextLists(k - 1, budget - Len(t))} :
                t \in StrsUpTo(budget)}

Collections ==
  UNION {{[i \in 1..k |-> comment_doc(i, ts[i])] : ts \in TextLists(k, MaxChars)} :
           k \in 0..MaxDocs}

\* an encoder that writes a line feed as it is
json_escape_raw_newline(c) ==
  CASE c = QUOTE -> <<BACKSLASH, QUOTE>>
    [] c = BACKSLASH -> <<BACKSLASH, BACKSLASH>>
    [] OTHER -> <<c>>

\* json.dumps: the escape of one character of a string
json_escape(c) ==
  CASE c = QUOTE -> <<BACKSLASH, QUOTE>>
    [] c = BACKSLASH -> <<BACKSLASH, BACKSLASH>>
    [] c = LF -> <<BACKSLASH, "n">>
    [] OTHER -> <<c>>

RECURSIVE encode_chars(_)
encode_chars(str) ==
  IF str = <<>> THEN <<>> ELSE json_escape(Head(str)) \o encode_chars(Tail(str))

json_string(str) == <<QUOTE>> \o encode_chars(str) \o <<QUOTE>>

RECURSIVE dumps_items(_)
dumps_items(items) ==
  IF items = <<>> THEN <<>>
  ELSE json_string(items[1][1]) \o <<":", " ">> \o json_string(items[1][2])
       \o (IF Len(items) > 1 THEN <<",", " ">> ELSE <<>>)
       \o dumps_items(Tail(items))

\* json.dumps(comment)
json_dumps(items) == <<"{">> \o dumps_items(items) \o <<"}">>

\* "\n".join(lines)
RECURSIVE join(_)
join(lines) ==
  IF lines = <<>> THEN <<>>
  ELSE IF Len(lines) = 1 THEN lines[1]
  ELSE lines[1] \o <<LF>> \o join(Tail(lines))

\* the Body that upload_comments_to_s3 puts
store_body(docs) == join([i \in DOMAIN docs |-> json_dumps(docs[i])])

\* body.split("\n")
RECURSIVE split(_)
split(body) ==
  LET breaks == {i \in DOMAIN body : body[i] = LF} IN
  IF breaks = {} THEN <<body>>
  ELSE LET i == CHOOSE b \in breaks : \A c \in breaks : b <= c
       IN <<SubSeq(body, 1, i - 1)>> \o split(SubSeq(body, i + 1, Len(body)))

JSONDecodeError == [ok |-> FALSE, value |-> <<>>, end |-> 0]

\* the decoder inside a string, after its opening quote
RECURSIVE scan_string(_, _, _)
scan_string(str, i, acc) ==
  IF i > Len(str) THEN JSONDecodeError
  ELSE IF str[i] = QUOTE THEN [ok |-> TRUE, value |-> acc, end |-> i + 1]
  ELSE IF str[i] = BACKSLASH THEN
    IF i + 1 > Len(str) THEN JSONDecodeError
    ELSE IF str[i + 1] \in {QUOTE, BACKSLASH}
      THEN scan_string(str, i + 2, Append(acc, str[i + 1]))
    ELSE IF str[i + 1] = "n" THEN scan_string(str, i + 2, Append(acc, LF))
    ELSE JSONDecodeError
  ELSE IF str[i] = LF THEN JSONDecodeError
  ELSE scan_string(str, i + 1, Append(acc, str[i]))

parse_string(str, i) ==
  IF i <= Len(str) /\ str[i] = QUOTE THEN scan_string(str, i + 1, <<>>)
  ELSE JSONDecodeError

Expect(str, i, lit) ==
  /\ i + Len(lit) - 1 <= Len(str)
  /\ SubSeq(str, i, i + Len(lit) - 1) = lit

RECURSIVE parse_items(_, _, _)
parse_items(str, i, acc) ==
  LET k == parse_string(str, i) IN
  IF ~k.ok \/ ~Expect(str, k.end, <<":", " ">>) THEN JSONDecodeError
  ELSE LET v == parse_string(str, k.end + 2) IN
    IF ~v.ok THEN JSONDecodeError
    ELSE LET items == Append(acc, <<k.value, v.value>>) IN
      IF Expect(str, v.end, <<",", " ">>) THEN parse_items(str, v.end + 2, items)
      ELSE IF Expect(str, v.end, <<"}">>) /\ v.end = Len(str)
        THEN [ok |-> TRUE, value |-> items, end |-> v.end + 1]
      ELSE JSONDecodeError

\* json.loads(line), for the documents json.dumps writes
json_loads(str) ==
  IF ~Expect(str, 1, <<"{">>) THEN JSONDecodeError
  ELSE IF Expect(str, 2, <<"}">>) /\ Len(str) = 2
    THEN [ok |-> TRUE, value |-> <<>>, end |-> 3]
  ELSE parse_items(str, 2, <<>>)

InitStore ==
  /\ variant = "function"
  /\ pages = <<>>
  /\ s3 = [k \in Keys |-> NoObject]
  /\ status = [v \in VideoIds |-> [status |-> "PENDING"]]
  /\ pc = "store_write"
  /\ event \in {[video_id |-> v, action |-> "INSERT", execution_id |-> "e1"] :
                  v \in VideoIds}
  /\ next_page_token = None
  /\ comments \in Collections
  /\ scored = 0
  /\ enriched = <<>>
  /\ result = Unbound
  /\ comments_with_sentiment = NoReturn
  /\ faulted = FALSE
  /\ error = ""
  /\ response = EmptyDict
  /\ s3Before = [k \in Keys |-> NoObject]
  /\ io = <<>>
  /\ inserted = FALSE
  /\ remover = "off"

\* upload_comments_to_s3(comments, video_id)
StoreWrite ==
  /\ pc = "store_write"
  /\ s3' = [s3 EXCEPT ![TheKey] = store_body(comments)]
  /\ io' = Append(io, [op |-> "put_object", key |-> TheKey, ok |-> TRUE])
  /\ pc' = "store_read"
  /\ UNCHANGED <<variant, pages, status, event, next_page_token, comments,
                 scored, enriched, result, comments_with_sentiment, faulted,
                 error, response, s3Before, inserted, remover>>

\* retrieve_comments_from_s3(video_id)
StoreRead ==
  /\ pc = "store_read"
  /\ io' = Append(io, [op |-> "get_object", key |-> TheKey])
  /\ LET lines == split(s3[TheKey])
         parsed == [i \in DOMAIN lines |-> json_loads(lines[i])]
     IN IF \A i \in DOMAIN parsed : parsed[i].ok
          THEN /\ result' = [bound |-> TRUE,
                             value |-> [i \in DOMAIN parsed |-> parsed[i].value]]
               /\ pc' = "store_done"
               /\ UNCHANGED error
          ELSE /\ error' = "JSONDecodeError"
               /\ pc' = "store_failed"
               /\ UNCHANGED result
  /\ UNCHANGED <<variant, pages, s3, status, event, next_page_token, comments,
                 scored, enriched, comments_with_sentiment, faulted, response,
                 s3Before, inserted, remover>>

NextStore ==
  \/ StoreWrite
  \/ StoreRead

SpecStore == InitStore /\ [][NextStore]_vars

\* C8: for a non-empty collection, reading the object back after writing it
\* succeeds and returns as many records as were written, each with the same
\* field values as the record written at its place.
C8_RoundTrip ==
  (pc \in {"store_done", "store_failed"} /\ comments # <<>>) =>
    /\ pc = "store_done"
    /\ Len(result.value) = Len(comments)
    /\ \A i \in DOMAIN comments : AsDict(result.value[i]) = AsDict(comments[i])

C8_Witness ==
  /\ pc = "store_done"
  /\ Len(comments) = 2
  /\ comments[1][2][2] = <<LF>>
  /\ comments[2][2][2] = <<BACKSLASH, "n">>
  /\ Len(split(s3[TheKey])) = 2
  /\ AsDict(result.value[1])[text_display_key] = <<LF>>

\* C9: what enrichment returns has the length of its input, and its i-th
\* comment has the id of the i-th input comment.
C9_EnrichmentKeepsOrder ==
  (InsertPath /\ variant \in {"function", "pipeline"} /\ pc \in {"upload", "done"}
     /\ comments_with_sentiment.kind = "list") =>
    /\ Len(comments_with_sentiment.value) = Len(comments)
    /\ \A i \in DOMAIN comments : comments_with_sentiment.value[i].id = comments[i].id

\* C10: a success payload echoes the event's video_id and action; on the
\* insert path it also names the location of data/{video_id}.json, where the
\* object then is; an invocation that did not succeed has no payload.
C10_PayloadEchoesInput ==
  (variant \in Handlers /\ event # EmptyDict) =>
    /\ pc = "done" =>
         /\ error = ""
         /\ response.video_id = event.video_id
         /\ response.action = event.action
         /\ InsertPath =>
              /\ s3[TheKey] # NoObject
              /\ CASE variant = "function" ->
                        response.s3_uri = "s3://" \o BUCKET_NAME \o "/" \o TheKey
                   [] variant = "lambda_code" -> response.s3_uri = TheKey
                   [] OTHER -> response.output.bucket_key = TheKey
    /\ pc # "done" => response = EmptyDict

C10_Witness ==
  /\ variant = "function"
  /\ InsertPath
  /\ pc = "done"
  /\ event.video_id = "v2"
  /\ Len(comments) >= 3
  /\ response.video_id = "v2"

\* the action code is none of those the deployed handler accepts
Unsupported ==
  /\ event # EmptyDict
  /\ variant \in Handlers
  /\ event.action \notin {InsertCode(variant), "REMOVE"}

\* C11: an invocation with an unsupported action code fails, returns no
\* payload, and has made no external call at all: no secret lookup, fetch,
\* scoring call, status update, nor any read, write or delete of an object.
C11_UnsupportedBeforeIO ==
  Unsupported =>
    /\ pc = "failed"
    /\ error \in {"ValidationError", "ValueError"}
    /\ io = <<>>
    /\ s3 = s3Before
    /\ response = EmptyDict

C11_Witness ==
  /\ Unsupported
  /\ variant = "src"
  /\ event.action = "MODIFY"
  /\ pc = "failed"
  /\ inserted
  /\ status[event.video_id].status # "PENDING"

StatusOf(v) == status[v].status
Terminal == {"INSERTION_COMPLETED", "INSERTION_FAILED"}

ExtraKeys == {"execution_id", "id", "parent_id", "author_channel_id", "text_display"}

\* the extra_fields mappings: any subset of ExtraKeys, each with its own value
ExtraFields == {[k \in K |-> "x:" \o k] : K \in SUBSET ExtraKeys}

RawComments ==
  {RawComment(ThreadId(1, i), None, shape) : i \in 1..2, shape \in ReplyShapes}
  \cup {RawComment(ReplyId(1, i, 1), ThreadId(1, i), shape) :
          i \in 1..2, shape \in ReplyShapes}

InitFormat ==
  /\ variant \in {"function", "lambda_code"}
  /\ pages = <<>>
  /\ s3 = [k \in Keys |-> NoObject]
  /\ status = [v \in VideoIds |-> [status |-> "PENDING"]]
  /\ pc = "format_call"
  /\ event \in {[comment_data |-> c, additional_data |-> x] :
                  c \in RawComments, x \in ExtraFields}
  /\ next_page_token = None
  /\ comments = <<>>
  /\ scored = 0
  /\ enriched = <<>>
  /\ result = Unbound
  /\ comments_with_sentiment = NoReturn
  /\ faulted = FALSE
  /\ error = ""
  /\ response = EmptyDict
  /\ s3Before = s3
  /\ io = <<>>
  /\ inserted = FALSE
  /\ remover = "off"

\* format_comment(comment_data, additional_data)
FormatComment ==
  /\ pc = "format_call"
  /\ response' = format_comment(variant, event.comment_data, event.additional_data)
  /\ pc' = "format_done"
  /\ UNCHANGED <<variant, pages, s3, status, event, next_page_token, comments,
                 scored, enriched, result, comments_with_sentiment, faulted,
                 error, s3Before, io, inserted, remover>>

NextFormat == FormatComment

SpecFormat == InitFormat /\ [][NextFormat]_vars

\* what format_comment derives from the raw comment alone
Derived == format_comment(variant, event.comment_data, EmptyDict)

\* C13: whatever extra_fields holds, the emitted comment keeps every field
\* derived from the raw item (id, parent_id, author_channel_id, the re-keyed
\* snippet fields) at its derived value, and carries the extra fields that
\* collide with none of them.
C13_ExtraFieldsKeepDerived ==
  pc = "format_done" =>
    /\ \A k \in DOMAIN Derived : response[k] = Derived[k]
    /\ \A k \in DOMAIN event.additional_data \ DOMAIN Derived :
         response[k] = event.additional_data[k]

\* the part of C13 the handlers rely on: extra fields whose keys collide with
\* no derived field are merged in and change nothing else
C13_DisjointExtras ==
  (pc = "format_done" /\ DOMAIN event.additional_data \cap DOMAIN Derived = {}) =>
    response = Merge(Derived, event.additional_data)

\* the defensive cap (10,000 pages in the text), scaled down to the
\* longest upstream that ends
PageCap == MaxPages

\* C14: against an upstream that names a continuation on every page the
\* retrieval stops: it makes at most PageCap fetches, and when the page
\* fetched last within the cap still names a continuation the retrieval has
\* failed with PaginationExceeded.
C14_PaginationCapped ==
  InsertPath =>
    /\ Len(Fetches) <= PageCap
    /\ (/\ Len(Fetches) = PageCap
        /\ Fetches[PageCap].ok
        /\ ~Falsy(next_page_token)) =>
         /\ pc \in {"failed", "except"}
         /\ error = "PaginationExceeded"

\* C15: a page request answered with an unsuccessful status is the last
\* request of its retrieval (it is not repeated and no further page is
\* asked for), the error reaches the handler, and the invocation returns no
\* comments: nothing is scored or written afterwards and no payload returned.
C15_UpstreamErrorNoRetry ==
  InsertPath =>
    \A j \in DOMAIN io : (io[j].op = "fetch" /\ ~io[j].ok) =>
      /\ \A k \in DOMAIN io : k > j => io[k].op = "update_item"
      /\ pc \in {"failed", "except"}
      /\ error \in {"HTTPError", "ValueError"}
      /\ comments_with_sentiment = NoReturn
      /\ response = EmptyDict
      /\ s3 = s3Before

C15_Witness ==
  /\ InsertPath
  /\ variant = "function"
  /\ Len(Fetches) = 2
  /\ Fetches[1].ok
  /\ ~Fetches[2].ok
  /\ Fetches[2].page_token = Cursor(2)
  /\ comments # <<>>
  /\ pc = "failed"
  /\ error = "HTTPError"

\* ---------------------------------------------------------------------
\* An ingest and a REMOVE for the same video_id, invoked together: two
\* executions of the same handler, sharing nothing but the bucket (and the
\* status table).  `pc` is the ingest's position, `remover` the REMOVE's.
\* ---------------------------------------------------------------------
EndingUpstreams == {ps \in Upstreams : Falsy(next_token(ps[Len(ps)]))}

InitRace ==
  /\ variant \in Handlers
  /\ pages \in EndingUpstreams
  /\ \E body \in {NoObject, PriorBody} : s3 = [k \in Keys |-> body]
  /\ status = [v \in VideoIds |-> [status |-> "PENDING"]]
  /\ pc = entry_pc(variant, InsertCode(variant))
  /\ event \in {[video_id |-> v, action |-> InsertCode(variant),
                 execution_id |-> "e1"] : v \in VideoIds}
  /\ next_page_token = None
  /\ comments = <<>>
  /\ scored = 0
  /\ enriched = <<>>
  /\ result = Unbound
  /\ comments_with_sentiment = NoReturn
  /\ faulted = FALSE
  /\ error = ""
  /\ response = EmptyDict
  /\ s3Before = s3
  /\ io = <<>>
  /\ inserted = TRUE
  /\ remover = entry_pc(variant, "REMOVE")

\* the REMOVE of src/app.py: retrieve_comments_from_s3 before the delete
RaceReadObject ==
  /\ remover = "read"
  /\ io' = Append(io, [op |-> "get_object", key |-> s3_key(event.video_id)])
  /\ LET body == s3[s3_key(event.video_id)]
     IN remover' = IF body = NoObject \/ (\E i \in DOMAIN body : body[i].text = "")
                   THEN "failed"
                   ELSE "remove"
  /\ UNCHANGED <<variant, pages, s3, status, pc, event, next_page_token,
                 comments, scored, enriched, result, comments_with_sentiment,
                 faulted, error, response, s3Before, inserted>>

\* remove_comments_from_s3 of the REMOVE
RaceRemove ==
  /\ remover = "remove"
  /\ io' = Append(io, [op |-> "delete_object", key |-> s3_key(event.video_id)])
  /\ s3' = [s3 EXCEPT ![s3_key(event.video_id)] = NoObject]
  /\ remover' = "done"
  /\ UNCHANGED <<variant, pages, status, pc, event, next_page_token, comments,
                 scored, enriched, result, comments_with_sentiment, faulted,
                 error, response, s3Before, inserted>>

NextRace ==
  \/ MarkInProgress
  \/ GetSecret
  \/ FetchPage
  \/ ScoreBatch
  \/ FinishScoring
  \/ Upload
  \/ Return
  \/ RecordFailure
  \/ RaceReadObject
  \/ RaceRemove

SpecRace == InitRace /\ [][NextRace]_vars

\* the puts that succeeded and the deletes, in the order the bucket saw them
StoreOps ==
  SelectSeq(io, LAMBDA e : (e.op = "put_object" /\ e.ok) \/ e.op = "delete_object")

\* C16: with an ingest and a REMOVE of the same video racing, the object is
\* at every moment what the last store operation made it: untouched while
\* there was none, absent when it was the delete, and when it was the put the
\* whole body the ingest uploaded (one record per comment enrichment
\* returned); no other key changes.
C16_LastStoreOpWins ==
  remover # "off" =>
    /\ \A k \in Keys \ {TheKey} : s3[k] = s3Before[k]
    /\ StoreOps = <<>> => s3 = s3Before
    /\ StoreOps # <<>> =>
         IF StoreOps[Len(StoreOps)].op = "delete_object"
         THEN s3[TheKey] = NoObject
         ELSE /\ s3[TheKey] = jsonl_body(comments_with_sentiment.value)
              /\ (variant = "function" /\ AllMatched) =>
                   /\ Len(comments_with_sentiment.value) = Len(comments)
                   /\ \A i \in DOMAIN comments :
                        comments_with_sentiment.value[i].id = comments[i].id
    /\ (pc = "done" /\ remover = "done") =>
         s3[TheKey] \in {NoObject, jsonl_body(comments_with_sentiment.value)}

C16_Witness ==
  /\ variant = "function"
  /\ pc = "done"
  /\ remover = "done"
  /\ s3Before[TheKey] = PriorBody
  /\ Len(StoreOps) = 2
  /\ StoreOps[1].op = "delete_object"
  /\ StoreOps[2].op = "put_object"
  /\ Len(comments) >= 3
  /\ s3[TheKey] = jsonl_body(comments_with_sentiment.value)

\* the other order: the delete lands after the put
C16_DeleteLast ==
  /\ pc = "done"
  /\ remover = "done"
  /\ Len(StoreOps) = 2
  /\ StoreOps[1].op = "put_object"
  /\ s3[TheKey] = NoObject

\* the continuation token in the response to the k-th request
TokenAnswered(k) ==
  Get(upstream_page(pages, Fetches[k].page_token), "nextPageToken", None)

\* C17: the first request of a retrieval carries no token; every later one
\* follows a request that was answered, and carries exactly the token of
\* that answer, which was neither absent nor empty; while the retrieval is
\* still fetching, the token it holds is the one answered last.
C17_CursorChained ==
  InsertPath =>
    /\ \A k \in DOMAIN Fetches :
         IF k = 1 THEN Fetches[k].page_token = None
         ELSE /\ Fetches[k - 1].ok
              /\ ~Falsy(TokenAnswered(k - 1))
              /\ Fetches[k].page_token = TokenAnswered(k - 1)
    /\ (Fetches # <<>> /\ Fetches[Len(Fetches)].ok) =>
         next_page_token = TokenAnswered(Len(Fetches))
    /\ (pc = "fetch" /\ Fetches # <<>>) => ~Falsy(next_page_token)

C17_Witness ==
  /\ InsertPath
  /\ variant = "pipeline"
  /\ Len(pages) = 2
  /\ Len(Fetches) = 3
  /\ Fetches[1].page_token = None
  /\ Fetches[2].page_token = Cursor(2)
  /\ Fetches[3].page_token = Cursor(1)
  /\ Fetches[3].ok

\* the replies the upstream holds, each with the id of its thread's
\* top-level comment: <<reply id, top-level id>>
RawReplies ==
  UNION {UNION { IF "replies" \in DOMAIN pages[p].items[i]
                 THEN {<<pages[p].items[i].replies.comments[j].id,
                         pages[p].items[i].snippet.topLevelComment.id>> :
                         j \in DOMAIN pages[p].items[i].replies.comments}
                 ELSE {} : i \in DOMAIN pages[p].items} : p \in DOMAIN pages}

\* C18 (order): in the retrieved collection a reply comes directly after
\* its thread's top-level comment or after another reply of that thread
C18_RepliesFollowTopLevel ==
  InsertPath =>
    \A i \in DOMAIN comments : \A r \in RawReplies :
      comments[i].id = r[1] =>
        /\ i > 1
        /\ \/ comments[i - 1].id = r[2]
           \/ <<comments[i - 1].id, r[2]>> \in RawReplies

\* C18: every reply of the retrieved collection has a parent_id that is not
\* the sentinel and is the id of its thread's top-level comment, which
\* stands at an earlier index of the collection.
C18_RepliesReferenceEarlier ==
  InsertPath =>
    \A i \in DOMAIN comments : \A r \in RawReplies :
      comments[i].id = r[1] =>
        /\ Get(comments[i], "parent_id", "none") # "none"
        /\ comments[i].parent_id = r[2]
        /\ \E j \in 1..(i - 1) : comments[j].id = r[2]

\* an insert that retrieved no comment at all and on which no external call
\* failed has come to its end
EmptyInsertEnded(v) ==
  /\ variant = v
  /\ RetrievalReturned
  /\ comments = <<>>
  /\ \A j \in DOMAIN io : "ok" \in DOMAIN io[j] => io[j].ok
  /\ pc \in {"done", "failed"}

EmptyInsertSucceeded ==
  /\ pc = "done"
  /\ error = ""
  /\ Scores = <<>>
  /\ comments_with_sentiment = [kind |-> "list", value |-> <<>>]
  /\ Len(Puts) = 1
  /\ s3[TheKey] = jsonl_body(<<>>)
  /\ response # EmptyDict
  /\ response.video_id = event.video_id

\* C19: an insert for a video without any comment thread succeeds: no
\* scoring call is made, enrichment returns the empty collection, one object
\* is written at data/{video_id}.json and the success payload is returned.
C19_EmptyInsertSucceeds ==
  (\E v \in {"function", "lambda_code"} : EmptyInsertEnded(v)) => EmptyInsertSucceeded

\* C19 as far as function/src/app.py goes
C19_FunctionHolds ==
  EmptyInsertEnded("function") => EmptyInsertSucceeded

====
